---- MODULE Spec2Model ----
(***************************************************************************)
(* easy-db: a generic REST layer over one SQLite connection.               *)
(* The model follows src/src/lib.rs: the identifier check, the four        *)
(* request handlers (handle_get, handle_post, handle_put, handle_delete),  *)
(* the row codec, the Mutex that guards the connection, and the setup       *)
(* (EasyDB::init, create_table, run_server).  The storage                  *)
(* engine is modelled by what the statements the handlers build do on the  *)
(* table the tests create:                                                  *)
(*   students(id INTEGER PRIMARY KEY, name TEXT, age INTEGER, gpa REAL).   *)
(***************************************************************************)
EXTENDS Integers, Sequences, FiniteSets, TLC

VARIABLES
    store,      \* the rows of table students: a set of functions column -> SQL value
    lock,       \* holder of the Mutex<Connection>: 0 when free, else the worker
    pc,         \* per worker: "idle", "waiting" (blocked in db.lock()), "locked"
    last,       \* the call most recently returned by a handler (NoCall once the lock is taken again)
    deleted,    \* (SpecHistory) ids whose DELETE returned 200 and that no create has inserted since
    remade,     \* (SpecHistory) ids of `deleted` that an update has given to a row since
    ident,      \* identifier validator: the string under test, as code points
    verdict,    \* identifier validator: what is_valid_identifier returned for ident
    exposed_tables, \* EasyDB.exposed_tables: the Vec<String> create_table pushes to
    schema,     \* the tables of the database: table name -> the column list it was created with
    routes,     \* the routes run_server has added to the Router, in order
    phase,      \* "setup" until run_server is called, then "serving", "panicked" or "failed"
    created,    \* the create_table call most recently returned, with its result
    codec_row,  \* row codec: the result row given to row_to_json (<<>> when none)
    codec_json  \* row codec: the JSON object row_to_json returned (<<>> before it has)

server_vars == <<store, lock, pc, last, deleted, remade, ident, verdict>>
setup_vars  == <<exposed_tables, schema, routes, phase, created>>
codec_vars  == <<codec_row, codec_json>>
vars == <<store, lock, pc, last, deleted, remade, ident, verdict,
          exposed_tables, schema, routes, phase, created, codec_row, codec_json>>

----------------------------------------------------------------------------
(* Bounds of the model *)

MaxLen == 2        \* longest string given to the validator on its own
NumWorkers == 2    \* requests in flight at once
MaxRows == 2       \* rows the table may hold

Workers == 1..NumWorkers

\* The ids the requests name and the rows may take (a path id is an i32).
MinId == 0 - 1
PathIds == {MinId, 0, 1, 2}

----------------------------------------------------------------------------
(* Strings.  A Rust &str is its sequence of chars; the strings the requests *)
(* carry come from a finite universe, each with its code points.            *)

Chars(s) ==
    CASE s = ""       -> <<>>
      [] s = "id"     -> <<105, 100>>
      [] s = "name"   -> <<110, 97, 109, 101>>
      [] s = "age"    -> <<97, 103, 101>>
      [] s = "gpa"    -> <<103, 112, 97>>
      [] s = "zip"    -> <<122, 105, 112>>
      [] s = "a;b"    -> <<97, 59, 98>>
      [] s = "_sort"  -> <<95, 115, 111, 114, 116>>
      [] s = "_order" -> <<95, 111, 114, 100, 101, 114>>
      [] s = "_x"     -> <<95, 120>>
      [] s = "Al"     -> <<65, 108>>
      [] s = "Bo"     -> <<66, 111>>
      [] s = "20"     -> <<50, 48>>
      [] s = "22"     -> <<50, 50>>
      [] s = "desc"   -> <<100, 101, 115, 99>>
      [] s = "Desc"   -> <<68, 101, 115, 99>>
      [] s = "DESC"   -> <<68, 69, 83, 67>>
      [] s = "asc"    -> <<97, 115, 99>>
      [] s = "ASC"    -> <<65, 83, 67>>
      [] s = "up"     -> <<117, 112>>
      [] s = "UP"     -> <<85, 80>>
      [] s = "students" -> <<115, 116, 117, 100, 101, 110, 116, 115>>
      [] s = "logs"   -> <<108, 111, 103, 115>>
      [] s = "3.5"    -> <<51, 46, 53>>
      [] s = "null"   -> <<110, 117, 108, 108>>
      [] s = "true"   -> <<116, 114, 117, 101>>
      [] s = "[]"     -> <<91, 93>>
      [] s = "{\"age\":1}" -> <<123, 34, 97, 103, 101, 34, 58, 49, 125>>

\* Code points the validator is tried on: the ends of the three ASCII ranges,
\* their neighbours, the underscore, and one non-ASCII letter (e-acute).
Alphabet == {47, 48, 57, 58, 59, 64, 65, 90, 91, 95, 96, 97, 122, 123, 32, 233}

RECURSIVE SeqsUpTo(_, _)
SeqsUpTo(A, n) ==
    IF n = 0 THEN {<<>>}
    ELSE LET shorter == SeqsUpTo(A, n - 1)
         IN  shorter \cup {Append(s, c) : s \in {t \in shorter : Len(t) = n - 1}, c \in A}

Identifiers == SeqsUpTo(Alphabet, MaxLen)

\* char::is_ascii_alphanumeric
is_ascii_alphanumeric(c) ==
    \/ c >= 48 /\ c <= 57
    \/ c >= 65 /\ c <= 90
    \/ c >= 97 /\ c <= 122

\* A validator that accepts a name as soon as one character is safe.
is_valid_identifier_any(name) ==
    \E i \in 1..Len(name) : is_ascii_alphanumeric(name[i]) \/ name[i] = 95

\* fn is_valid_identifier(name: &str) -> bool
is_valid_identifier(name) ==
    \A i \in 1..Len(name) : is_ascii_alphanumeric(name[i]) \/ name[i] = 95

\* str::starts_with('_')
starts_with_underscore(s) == Len(Chars(s)) > 0 /\ Chars(s)[1] = 95

----------------------------------------------------------------------------
(* JSON values (serde_json::Value).  A number keeps serde's split between   *)
(* integers and floats; a float is held in tenths (35 is 3.5).              *)

JStr(s)   == [k |-> "str",   s |-> s,  n |-> 0, cs |-> <<>>]
JInt(n)   == [k |-> "int",   s |-> "", n |-> n, cs |-> <<>>]
JFloat(t) == [k |-> "float", s |-> "", n |-> t, cs |-> <<>>]
JNull     == [k |-> "null",  s |-> "", n |-> 0, cs |-> <<>>]
JBool(b)  == [k |-> "bool",  s |-> "", n |-> IF b THEN 1 ELSE 0, cs |-> <<>>]

\* A JSON string that is none of the strings of Chars, held by its chars cs.
JChars(cs) == [k |-> "str", s |-> "", n |-> 0, cs |-> cs]

\* A request body: a JSON object (its map), or some other JSON value.
JObject(f) == [k |-> "object", o |-> f]
JArray     == [k |-> "array",  o |-> <<>>]

\* The integers whose decimal text the model knows.
IntDomain == (MinId..9) \cup {20, 22}

\* i64 / i32 Display
IntText(n) ==
    CASE n = MinId -> "-1"
      [] n = 0 -> "0" [] n = 1 -> "1" [] n = 2 -> "2" [] n = 3 -> "3" [] n = 4 -> "4"
      [] n = 5 -> "5" [] n = 6 -> "6" [] n = 7 -> "7" [] n = 8 -> "8" [] n = 9 -> "9"
      [] n = 20 -> "20" [] n = 22 -> "22"

\* f64 Display of a value held in tenths
FloatText(t) == CASE t = 35 -> "3.5"
FloatDomain == {35}

----------------------------------------------------------------------------
(* SQL values (rusqlite::types::ValueRef) and the schema of the table.      *)

SqlNull    == [t |-> "null", s |-> "", n |-> 0, b |-> <<>>]
SqlInt(n)  == [t |-> "int",  s |-> "", n |-> n, b |-> <<>>]
SqlReal(x) == [t |-> "real", s |-> "", n |-> x, b |-> <<>>]
\* A text cell written from the String s.
SqlText(s) == [t |-> "text", s |-> s,  n |-> 0, b |-> <<>>]
\* A text cell and a blob cell some other writer left in the file, held by
\* their bytes b (a text cell's bytes need not be UTF-8).
SqlRawText(b) == [t |-> "text", s |-> "", n |-> 0, b |-> b]
SqlBlob(b)    == [t |-> "blob", s |-> "", n |-> 0, b |-> b]

Tables  == {"students"}
Columns == {"id", "name", "age", "gpa"}

\* "id INTEGER PRIMARY KEY, name TEXT, age INTEGER, gpa REAL"
Affinity(c) ==
    CASE c = "id"   -> "INTEGER"
      [] c = "name" -> "TEXT"
      [] c = "age"  -> "INTEGER"
      [] c = "gpa"  -> "REAL"

IsIntText(s)  == \E n \in IntDomain : IntText(n) = s
ParseInt(s)   == CHOOSE n \in IntDomain : IntText(n) = s
IsRealText(s) == \E x \in FloatDomain : FloatText(x) = s
ParseReal(s)  == CHOOSE x \in FloatDomain : FloatText(x) = s

\* The value a column of affinity aff stores (or compares with) for a bound text.
TextAffinity(aff, s) ==
    CASE aff = "TEXT" -> SqlText(s)
      [] aff = "INTEGER" ->
            IF IsIntText(s) THEN SqlInt(ParseInt(s))
            ELSE IF IsRealText(s) THEN SqlReal(ParseReal(s))
            ELSE SqlText(s)
      [] aff = "REAL" ->
            IF IsIntText(s) THEN SqlReal(10 * ParseInt(s))
            ELSE IF IsRealText(s) THEN SqlReal(ParseReal(s))
            ELSE SqlText(s)

\* The same for any bound parameter: a text converts as above, an integer is
\* kept by an INTEGER column, widened by a REAL one and printed by a TEXT one.
ApplyAffinity(aff, v) ==
    CASE v.t = "text" -> TextAffinity(aff, v.s)
      [] v.t = "int"  -> (CASE aff = "INTEGER" -> v
                            [] aff = "REAL"    -> SqlReal(10 * v.n)
                            [] aff = "TEXT"    -> SqlText(IntText(v.n)))
      [] OTHER        -> v

IsNumeric(v) == v.t \in {"int", "real"}
Tenths(v)    == IF v.t = "int" THEN 10 * v.n ELSE v.n

\* SQL equality of two stored values (NULL equals nothing).
SqlEq(a, b) ==
    \/ IsNumeric(a) /\ IsNumeric(b) /\ Tenths(a) = Tenths(b)
    \/ a.t = "text" /\ b.t = "text" /\ a.s = b.s

RECURSIVE SeqLess(_, _)
SeqLess(a, b) ==
    IF b = <<>> THEN FALSE
    ELSE IF a = <<>> THEN TRUE
    ELSE IF Head(a) # Head(b) THEN Head(a) < Head(b)
    ELSE SeqLess(Tail(a), Tail(b))

\* memcmp order of two strings
StrLess(a, b) == SeqLess(Chars(a), Chars(b))

TypeRank(v) == CASE v.t = "null" -> 0 [] v.t \in {"int", "real"} -> 1 [] v.t = "text" -> 2

\* The order ORDER BY sorts by: NULL, then numbers, then text.
SqlLess(a, b) ==
    \/ TypeRank(a) < TypeRank(b)
    \/ IsNumeric(a) /\ IsNumeric(b) /\ Tenths(a) < Tenths(b)
    \/ a.t = "text" /\ b.t = "text" /\ StrLess(a.s, b.s)

SqlLeq(a, b) == ~SqlLess(b, a)

RowId(r) == r["id"].n

----------------------------------------------------------------------------
(* The statements the handlers build.  A statement is the text format!()    *)
(* produces, kept by its parts: the verb, the table and the identifiers     *)
(* interpolated into it; every value is a `?` bound from the parameters.    *)
(*   SELECT: cols are the filter columns (" WHERE c = ? AND ..."),          *)
(*           order is <<>> or <<column, direction>> (" ORDER BY c DIR")     *)
(*   INSERT: cols are the column list, one `?` each                         *)
(*   UPDATE: cols are the SET columns, then " WHERE id = ?"                 *)
(*   DELETE: " WHERE id = ?"                                                *)

Statement(verb, table, cols, order) ==
    [verb |-> verb, table |-> table, cols |-> cols, order |-> order]

Range(s) == {s[i] : i \in 1..Len(s)}
IndexOf(s, x) == CHOOSE i \in 1..Len(s) : s[i] = x

\* The number of `?` in the text of a statement.
Placeholders(sql) ==
    CASE sql.verb = "SELECT" -> Len(sql.cols)
      [] sql.verb = "INSERT" -> Len(sql.cols)
      [] sql.verb = "UPDATE" -> Len(sql.cols) + 1
      [] sql.verb = "DELETE" -> 1

IdentifiersOf(sql) ==
    Range(sql.cols) \cup (IF sql.order = <<>> THEN {} ELSE {sql.order[1]})

\* Connection::prepare: "" when the statement compiles, else the engine's message.
prepare(sql) ==
    IF sql.table \notin Tables THEN "no such table"
    ELSE IF "" \in IdentifiersOf(sql) \/ (sql.verb \in {"INSERT", "UPDATE"} /\ sql.cols = <<>>)
         THEN "syntax error"
    ELSE IF \E c \in IdentifiersOf(sql) : c \notin Columns THEN "no such column"
    ELSE ""

Ok(affected, rows) == [err |-> "", affected |-> affected, rows |-> rows]
Err(msg, rows)     == [err |-> msg, affected |-> 0, rows |-> rows]

Max(S) == CHOOSE x \in S : \A y \in S : y <= x

\* The rowid SQLite gives a row inserted without one.
NewRowid(rows) == IF rows = {} THEN 1 ELSE Max({RowId(r) : r \in rows}) + 1

\* The value column c takes from the bound parameters, NULL when c is not named.
Assigned(sql, params, c) ==
    IF c \in Range(sql.cols)
    THEN ApplyAffinity(Affinity(c), params[IndexOf(sql.cols, c)])
    ELSE SqlNull

\* An INSERT that overwrites the row holding the same id.
execute_insert_replace(sql, params, rows) ==
    LET given == Assigned(sql, params, "id")
        newid == IF "id" \in Range(sql.cols) THEN given ELSE SqlInt(NewRowid(rows))
        row   == [c \in Columns |-> IF c = "id" THEN newid ELSE Assigned(sql, params, c)]
    IN  IF prepare(sql) # "" THEN Err(prepare(sql), rows)
        ELSE IF newid.t # "int" THEN Err("datatype mismatch", rows)
        ELSE Ok(1, {r \in rows : RowId(r) # newid.n} \cup {row})

\* conn.execute of "INSERT INTO t (cols) VALUES (?, ...)"
execute_insert(sql, params, rows) ==
    LET given == Assigned(sql, params, "id")
        newid == IF "id" \in Range(sql.cols) THEN given ELSE SqlInt(NewRowid(rows))
        row   == [c \in Columns |-> IF c = "id" THEN newid ELSE Assigned(sql, params, c)]
    IN  IF prepare(sql) # "" THEN Err(prepare(sql), rows)
        ELSE IF newid.t # "int" THEN Err("datatype mismatch", rows)
        ELSE IF \E r \in rows : RowId(r) = newid.n
             THEN Err("UNIQUE constraint failed: students.id", rows)
        ELSE Ok(1, rows \cup {row})

\* An UPDATE whose text has lost its WHERE clause: every row is assigned.
execute_update_all(sql, params, rows) ==
    LET new(r) == [c \in Columns |->
                     IF c \in Range(sql.cols) THEN Assigned(sql, params, c) ELSE r[c]]
    IN  IF prepare(sql) # "" THEN Err(prepare(sql), rows)
        ELSE IF rows = {} THEN Ok(0, rows)
        ELSE IF \E r \in rows : new(r)["id"].t # "int" THEN Err("datatype mismatch", rows)
        ELSE IF Cardinality({new(r)["id"] : r \in rows}) # Cardinality(rows)
             THEN Err("UNIQUE constraint failed: students.id", rows)
        ELSE Ok(Cardinality(rows), {new(r) : r \in rows})

\* conn.execute of "UPDATE t SET c = ?, ... WHERE id = ?"; the id is the last parameter.
execute_update(sql, params, rows) ==
    LET idv     == ApplyAffinity(Affinity("id"), params[Len(sql.cols) + 1])
        target  == {r \in rows : SqlEq(r["id"], idv)}
        new(r)   == [c \in Columns |->
                       IF c \in Range(sql.cols) THEN Assigned(sql, params, c) ELSE r[c]]
    IN  IF prepare(sql) # "" THEN Err(prepare(sql), rows)
        ELSE IF target = {} THEN Ok(0, rows)
        ELSE IF \E r \in target : new(r)["id"].t # "int" THEN Err("datatype mismatch", rows)
        ELSE IF \E r \in target, r2 \in rows \ target : RowId(r2) = RowId(new(r))
             THEN Err("UNIQUE constraint failed: students.id", rows)
        ELSE Ok(Cardinality(target), (rows \ target) \cup {new(r) : r \in target})

\* conn.execute of "DELETE FROM t WHERE id = ?", the id bound as an integer.
execute_delete(sql, params, rows) ==
    LET idv    == ApplyAffinity(Affinity("id"), params[1])
        target == {r \in rows : SqlEq(r["id"], idv)}
    IN  IF prepare(sql) # "" THEN Err(prepare(sql), rows)
        ELSE Ok(Cardinality(target), rows \ target)

\* The rows a SELECT's WHERE clause keeps.
Matching(sql, params, rows) ==
    {r \in rows : \A i \in 1..Len(sql.cols) :
        SqlEq(r[sql.cols[i]], ApplyAffinity(Affinity(sql.cols[i]), params[i]))}

Orderings(S) ==
    {f \in [1..Cardinality(S) -> S] : \A i, j \in 1..Cardinality(S) : i # j => f[i] # f[j]}

\* The sequences in which the engine may return the rows of a SELECT: by rowid
\* without ORDER BY, by the sort column otherwise (ties in any order).
query_rows(sql, params, rows) ==
    LET col     == IF sql.order = <<>> THEN "id" ELSE sql.order[1]
        desc    == sql.order # <<>> /\ sql.order[2] = "DESC"
        inOrder(a, b) == IF desc THEN SqlLeq(b[col], a[col]) ELSE SqlLeq(a[col], b[col])
    IN  {f \in Orderings(Matching(sql, params, rows)) :
            \A i, j \in DOMAIN f : i < j => inOrder(f[i], f[j])}

----------------------------------------------------------------------------
(* The handlers' bodies, as functions of the request and the table.         *)

TableName == "students"

\* What a handler returned: the request it served, the (StatusCode, Json) pair,
\* the statements it handed to the engine with their bound parameters, and the
\* message of the engine error raised during the call ("" when none was).
Call(op, id, params, payload, status, body, stmts, binds, raised) ==
    [op |-> op, id |-> id, params |-> params, payload |-> payload, status |-> status,
     body |-> body, stmts |-> stmts, binds |-> binds, raised |-> raised]

NoBody == [k |-> "none", o |-> <<>>]
NoCall == Call("none", 0, <<>>, NoBody, 0, [kind |-> "none", msg |-> "", rows |-> <<>>],
               <<>>, <<>>, "")

\* json!({"error": msg})
ErrorBody(msg)   == [kind |-> "error", msg |-> msg, rows |-> <<>>]
\* json!({"status": "success", "message": msg})
SuccessBody(msg) == [kind |-> "success", msg |-> msg, rows |-> <<>>]
\* Value::from(results)
ArrayBody(rows)  == [kind |-> "array", msg |-> "", rows |-> rows]

\* str::as_bytes of a String with chars cs: its UTF-8 encoding (chars below 0x800)
RECURSIVE Utf8(_)
Utf8(cs) ==
    IF cs = <<>> THEN <<>>
    ELSE (IF Head(cs) < 128 THEN <<Head(cs)>>
          ELSE <<192 + (Head(cs) \div 64), 128 + (Head(cs) % 64)>>) \o Utf8(Tail(cs))

\* The bytes of a text cell
as_bytes(v) == IF v.b # <<>> THEN v.b ELSE Utf8(Chars(v.s))

IsContinuation(b) == b >= 128 /\ b <= 191
Utf8Error == [ok |-> FALSE, chars |-> <<>>]

\* std::str::from_utf8: the chars the bytes encode, or an error
RECURSIVE from_utf8(_)
from_utf8(bytes) ==
    LET n  == Len(bytes)
        b1 == bytes[1]
        push(c, k) ==
            LET rest == from_utf8(SubSeq(bytes, k + 1, n))
            IN  IF rest.ok THEN [ok |-> TRUE, chars |-> <<c>> \o rest.chars] ELSE Utf8Error
    IN  IF n = 0 THEN [ok |-> TRUE, chars |-> <<>>]
        ELSE IF b1 < 128 THEN push(b1, 1)
        ELSE IF /\ b1 >= 194 /\ b1 <= 223 /\ n >= 2
                /\ IsContinuation(bytes[2])
          THEN push((b1 - 192) * 64 + (bytes[2] - 128), 2)
        ELSE IF /\ b1 >= 224 /\ b1 <= 239 /\ n >= 3
                /\ IsContinuation(bytes[2]) /\ IsContinuation(bytes[3])
                /\ (b1 = 224 => bytes[2] >= 160)
                /\ (b1 = 237 => bytes[2] <= 159)
          THEN push((b1 - 224) * 4096 + (bytes[2] - 128) * 64 + (bytes[3] - 128), 3)
        ELSE IF /\ b1 >= 240 /\ b1 <= 244 /\ n >= 4
                /\ IsContinuation(bytes[2]) /\ IsContinuation(bytes[3])
                /\ IsContinuation(bytes[4])
                /\ (b1 = 240 => bytes[2] >= 144)
                /\ (b1 = 244 => bytes[2] <= 143)
          THEN push((b1 - 240) * 262144 + (bytes[2] - 128) * 4096
                      + (bytes[3] - 128) * 64 + (bytes[4] - 128), 4)
        ELSE Utf8Error

\* u8 Display, as chars
RECURSIVE Decimal(_)
Decimal(n) == IF n < 10 THEN <<48 + n>> ELSE Decimal(n \div 10) \o <<48 + (n % 10)>>

\* format!("{:?}", b) of a byte slice: "[1, 2, 3]"
RECURSIVE DebugList(_)
DebugList(b) ==
    IF b = <<>> THEN <<>>
    ELSE IF Len(b) = 1 THEN Decimal(b[1])
    ELSE Decimal(b[1]) \o <<44, 32>> \o DebugList(Tail(b))
debug_fmt(b) == <<91>> \o DebugList(b) \o <<93>>

\* A text cell that is not UTF-8 made JSON null.
text_to_json_null(v) ==
    LET res == from_utf8(as_bytes(v))
    IN  IF ~res.ok THEN JNull
        ELSE IF res.chars = Chars(v.s) THEN JStr(v.s) ELSE JChars(res.chars)

\* Value::from(std::str::from_utf8(t).unwrap_or(""))
text_to_json(v) ==
    LET res == from_utf8(as_bytes(v))
    IN  IF ~res.ok THEN JStr("")
        ELSE IF res.chars = Chars(v.s) THEN JStr(v.s) ELSE JChars(res.chars)

\* fn row_to_json(row) -> Value
row_to_json(r) ==
    [c \in DOMAIN r |->
        CASE r[c].t = "null" -> JNull
          [] r[c].t = "int"  -> JInt(r[c].n)
          [] r[c].t = "real" -> JFloat(r[c].n)
          [] r[c].t = "text" -> text_to_json(r[c])
          [] r[c].t = "blob" -> JChars(debug_fmt(r[c].b))]

\* str::to_uppercase, on code points
to_uppercase(cs) == [i \in 1..Len(cs) |-> IF cs[i] >= 97 /\ cs[i] <= 122 THEN cs[i] - 32 ELSE cs[i]]

\* A direction taken from the request as it came.
safe_order_raw(params) ==
    IF "_order" \in DOMAIN params /\ params["_order"] = "desc" THEN "DESC"
    ELSE IF "_order" \in DOMAIN params /\ params["_order"] = "Desc" THEN "Desc"
    ELSE "ASC"

\* let safe_order = if order == "DESC" { "DESC" } else { "ASC" };
safe_order(params) ==
    IF "_order" \in DOMAIN params /\ to_uppercase(Chars(params["_order"])) = Chars("DESC")
    THEN "DESC" ELSE "ASC"

\* A filter set that leaves out the two names the sort reads and nothing else.
filter_keys_reserved(params) == DOMAIN params \ {"_sort", "_order"}

\* The query parameters handle_get turns into filters.
filter_keys(params) == {k \in DOMAIN params : ~starts_with_underscore(k)}

\* A check that lets every name through.
get_check_none(params) == ""

\* The early returns of handle_get: "" when every identifier passes.
get_check(params) ==
    IF \E k \in filter_keys(params) : ~is_valid_identifier(Chars(k)) THEN "Invalid column name"
    ELSE IF "_sort" \in DOMAIN params /\ ~is_valid_identifier(Chars(params["_sort"]))
         THEN "Invalid sort column"
    ELSE ""

\* A SELECT with each filter's value written into the text after its column.
get_statement_inline(params, enum) ==
    Statement("SELECT", TableName,
              [i \in 1..Len(enum) |-> enum[i] \o " = " \o params[enum[i]]],
              IF "_sort" \in DOMAIN params THEN <<params["_sort"], safe_order(params)>>
              ELSE <<>>)

\* The SELECT handle_get builds, its filters in the order enum the map yields them.
get_statement(params, enum) ==
    Statement("SELECT", TableName, enum,
              IF "_sort" \in DOMAIN params THEN <<params["_sort"], safe_order(params)>>
              ELSE <<>>)

\* mapped.filter_map(|r| r.ok()).collect(): the rows read before the step that
\* fails (failAt, 0 for none), each through row_to_json.
get_collect(rows, failAt) ==
    LET n == IF failAt \in 1..(Len(rows) + 1) THEN failAt - 1 ELSE Len(rows)
    IN  [i \in 1..n |-> row_to_json(rows[i])]

\* A handle_get that collects the values to bind in the order of the sorted
\* names, not in the order in which it wrote the predicates.
get_results_misbound(params, enum, failAt, rows) ==
    LET sql    == get_statement(params, enum)
        sorted == CHOOSE s \in Orderings(Range(enum)) :
                     \A i, j \in DOMAIN s : i < j => StrLess(s[i], s[j])
        binds  == [i \in 1..Len(enum) |-> SqlText(params[sorted[i]])]
        ret(status, body, stmts, bs, raised) ==
            Call("GET", 0, params, NoBody, status, body, stmts, bs, raised)
    IN  IF get_check(params) # ""
          THEN {ret(400, ErrorBody(get_check(params)), <<>>, <<>>, "")}
        ELSE IF prepare(sql) # ""
          THEN {ret(500, ErrorBody(prepare(sql)), <<sql>>, <<>>, prepare(sql))}
        ELSE {ret(200, ArrayBody(get_collect(found, failAt)), <<sql>>, binds,
                  IF failAt \in 1..(Len(found) + 1) THEN "disk I/O error" ELSE "")
                 : found \in query_rows(sql, binds, rows)}

\* handle_get: every return it can make for these query parameters.
get_results(params, enum, failAt, rows) ==
    LET sql   == get_statement(params, enum)
        binds == [i \in 1..Len(enum) |-> SqlText(params[enum[i]])]
        ret(status, body, stmts, bs, raised) ==
            Call("GET", 0, params, NoBody, status, body, stmts, bs, raised)
    IN  IF get_check(params) # ""
          THEN {ret(400, ErrorBody(get_check(params)), <<>>, <<>>, "")}
        ELSE IF prepare(sql) # ""
          THEN {ret(500, ErrorBody(prepare(sql)), <<sql>>, <<>>, prepare(sql))}
        ELSE {ret(200, ArrayBody(get_collect(found, failAt)), <<sql>>, binds,
                  IF failAt \in 1..(Len(found) + 1) THEN "disk I/O error" ELSE "")
                 : found \in query_rows(sql, binds, rows)}

\* A payload that is never taken to be empty.
is_empty_never(obj) == FALSE

\* obj.is_empty()
is_empty(obj) == DOMAIN obj = {}

\* A count of affected rows that is never taken to be zero.
none_affected_never(affected) == FALSE

\* if affected == 0 { NOT_FOUND } else { OK }
none_affected(affected) == affected = 0

\* The keys of a serde_json Map, in the order keys() and values() yield them.
Keys(obj) ==
    CHOOSE s \in Orderings(DOMAIN obj) : \A i, j \in DOMAIN s : i < j => StrLess(s[i], s[j])

\* serde_json::Value::to_string: the compact JSON text of a value.  The members
\* of an object come in the order of its keys; no string of the model needs an
\* escape.
RECURSIVE to_string(_)
to_string(v) ==
    LET key(i)    == Keys(v.o)[i]
        member(i) == "\"" \o key(i) \o "\":" \o to_string(v.o[key(i)])
        members[i \in 0..Cardinality(DOMAIN v.o)] ==
            IF i = 0 THEN ""
            ELSE IF i = 1 THEN member(1)
            ELSE members[i - 1] \o "," \o member(i)
    IN  CASE v.k = "int"    -> IntText(v.n)
          [] v.k = "float"  -> FloatText(v.n)
          [] v.k = "null"   -> "null"
          [] v.k = "bool"   -> (IF v.n = 1 THEN "true" ELSE "false")
          [] v.k = "str"    -> "\"" \o v.s \o "\""
          [] v.k = "array"  -> "[]"
          [] v.k = "object" -> "{" \o members[Cardinality(DOMAIN v.o)] \o "}"

\* A binding that serialises strings too, quotes included.
bind_text_quoted(v) == IF v.k = "str" THEN "\"" \o v.s \o "\"" ELSE to_string(v)

\* A binding that makes a JSON null the empty text.
bind_text_null_empty(v) ==
    IF v.k = "str" THEN v.s ELSE IF v.k = "null" THEN "" ELSE to_string(v)

\* v.as_str().unwrap_or(&v.to_string()).to_string(): the text bound for a payload value
bind_text(v) == IF v.k = "str" THEN v.s ELSE to_string(v)

\* The result of a handler that writes: the call it returns and the table after.
Write(call, rows) == [call |-> call, rows |-> rows]

\* handle_post
post_result(payload, rows) ==
    LET obj   == payload.o
        keys  == Keys(obj)
        sql   == Statement("INSERT", TableName, keys, <<>>)
        vals  == [i \in 1..Len(keys) |-> SqlText(bind_text(obj[keys[i]]))]
        done  == execute_insert(sql, vals, rows)
        first_invalid == keys[CHOOSE i \in 1..Len(keys) :
                                /\ ~is_valid_identifier(Chars(keys[i]))
                                /\ \A j \in 1..(i - 1) : is_valid_identifier(Chars(keys[j]))]
        ret(status, body, stmts, bs, raised) ==
            Call("POST", 0, <<>>, payload, status, body, stmts, bs, raised)
    IN  IF payload.k # "object"
          THEN Write(ret(400, ErrorBody("Invalid JSON format"), <<>>, <<>>, ""), rows)
        ELSE IF is_empty(obj)
          THEN Write(ret(400, ErrorBody("Empty JSON body"), <<>>, <<>>, ""), rows)
        ELSE IF \E k \in DOMAIN obj : ~is_valid_identifier(Chars(k))
          THEN Write(ret(400, ErrorBody("Invalid column: " \o first_invalid), <<>>, <<>>, ""), rows)
        ELSE IF done.err # ""
          THEN Write(ret(500, ErrorBody(done.err), <<sql>>, vals, done.err), done.rows)
        ELSE Write(ret(201, SuccessBody("Record created"), <<sql>>, vals, ""), done.rows)

\* Parameters of an update with the id pushed first.
put_params_id_first(id, obj) ==
    <<SqlText(IntText(id))>> \o [i \in 1..Len(Keys(obj)) |-> SqlText(bind_text(obj[Keys(obj)[i]]))]

\* let mut params: Vec<String> = obj.values().map(..).collect(); params.push(id.to_string());
put_params(id, obj) ==
    [i \in 1..Len(Keys(obj)) |-> SqlText(bind_text(obj[Keys(obj)[i]]))] \o <<SqlText(IntText(id))>>

\* A check that refuses the empty object, as handle_post's does.
put_check_nonempty(payload) ==
    IF payload.k # "object" THEN "Invalid JSON format"
    ELSE IF is_empty(payload.o) THEN "Empty JSON body"
    ELSE IF \E k \in DOMAIN payload.o : ~is_valid_identifier(Chars(k)) THEN "Invalid column name"
    ELSE ""

\* The early returns of handle_put: "" when the payload is an object whose keys
\* all pass.
put_check(payload) ==
    IF payload.k # "object" THEN "Invalid JSON format"
    ELSE IF \E k \in DOMAIN payload.o : ~is_valid_identifier(Chars(k)) THEN "Invalid column name"
    ELSE ""

\* handle_put
put_result(id, payload, rows) ==
    LET obj    == payload.o
        keys   == Keys(obj)
        sql    == Statement("UPDATE", TableName, keys, <<>>)
        params == put_params(id, obj)
        done   == execute_update(sql, params, rows)
        ret(status, body, stmts, bs, raised) ==
            Call("PUT", id, <<>>, payload, status, body, stmts, bs, raised)
    IN  IF put_check(payload) # ""
          THEN Write(ret(400, ErrorBody(put_check(payload)), <<>>, <<>>, ""), rows)
        ELSE IF done.err # ""
          THEN Write(ret(500, ErrorBody(done.err), <<sql>>, params, done.err), done.rows)
        ELSE IF none_affected(done.affected)
          THEN Write(ret(404, ErrorBody("Record not found"), <<sql>>, params, ""), done.rows)
        ELSE Write(ret(200, SuccessBody("Record updated"), <<sql>>, params, ""), done.rows)

\* handle_delete
delete_result(id, rows) ==
    LET sql  == Statement("DELETE", TableName, <<>>, <<>>)
        done == execute_delete(sql, <<SqlInt(id)>>, rows)
        ret(status, body, raised) ==
            Call("DELETE", id, <<>>, NoBody, status, body, <<sql>>, <<SqlInt(id)>>, raised)
    IN  IF done.err # ""
          THEN Write(ret(500, ErrorBody(done.err), done.err), done.rows)
        ELSE IF none_affected(done.affected)
          THEN Write(ret(404, ErrorBody("Record not found"), ""), done.rows)
        ELSE Write(ret(200, SuccessBody("Record deleted"), ""), done.rows)

----------------------------------------------------------------------------
(* The requests the clients send. *)

Filters ==
    { <<>>,
      "name" :> "Al",
      "name" :> "Bo",
      "age" :> "20",
      ("name" :> "Al") @@ ("age" :> "20"),
      ("name" :> "Bo") @@ ("age" :> "20"),
      "a;b" :> "Al",
      "zip" :> "Al",
      "" :> "Al",
      "_x" :> "Al" }

Sorts  == {"_sort" :> c : c \in {"age", "a;b", "zip"}}
Orders == {<<>>} \cup {"_order" :> o : o \in {"desc", "Desc", "asc", "up"}}

\* Query strings: filters alone, a sort alone, a sort with every direction, a
\* direction alone, and filters and sort together.
GetParams ==
    Filters
    \cup Sorts
    \cup {("_sort" :> "age") @@ o : o \in Orders}
    \cup {"_order" :> "desc"}
    \cup {f @@ ("_sort" :> "age") @@ ("_order" :> "desc") : f \in {"name" :> "Al", "a;b" :> "Al"}}
    \cup {("name" :> "Al") @@ ("_sort" :> "a;b")}

\* The step of the result at which the engine fails (0: it does not).
FailAts == 0..MaxRows

Gpa == "gpa" :> JFloat(35)

PostBodies ==
    {JObject(("name" :> JStr(n)) @@ ("age" :> a) @@ Gpa) :
        n \in {"Al", "Bo"}, a \in {JInt(20), JStr("22")}}
    \cup {JObject(("id" :> i) @@ ("name" :> JStr("Al")) @@ ("age" :> JInt(20)) @@ Gpa) :
        i \in {JInt(MinId), JInt(1), JStr("Al")}}
    \cup {JObject("zip" :> JStr("Al")),
          JObject("a;b" :> JStr("Al")),
          JObject(("a;b" :> JStr("Al")) @@ ("name" :> JStr("Al"))),
          JObject("" :> JStr("Al")),
          JObject(<<>>),
          JArray}

PutBodies ==
    {JObject("age" :> JInt(22)),
     JObject("name" :> JStr("Bo")),
     JObject("id" :> JInt(1)),
     JObject("zip" :> JStr("Al")),
     JObject("a;b" :> JStr("Al")),
     JObject(<<>>),
     JArray}

----------------------------------------------------------------------------
(* Setup: the tables create_table makes and exposes, the routes run_server  *)
(* adds for them.                                                           *)

MaxTables == 3     \* create_table calls that succeed before run_server

\* The names and column lists the callers pass, and some that are refused.
TableNames      == {"students", "logs", "a;b", ""}
StudentsColumns == "id INTEGER PRIMARY KEY, name TEXT, age INTEGER, gpa REAL"
LogsColumns     == "id INTEGER PRIMARY KEY, message TEXT"
ColumnLists     == {StudentsColumns, LogsColumns, ""}

\* conn.execute of "CREATE TABLE IF NOT EXISTS name (columns)": the engine's
\* message when the text is no statement, "" when it runs.
create_error(name, columns) ==
    IF name = "" \/ columns = "" THEN "syntax error" ELSE ""

\* What the statement leaves in the database: nothing new when the table exists.
execute_create(name, columns, tables) ==
    IF name \in DOMAIN tables THEN tables ELSE tables @@ (name :> columns)

\* The result of a create_table call.
Created(name, columns, result) == [name |-> name, columns |-> columns, result |-> result]
NoCreate == Created("", "", "none")

\* The routes run_server adds for table t: format!("/{}", t) with get and post,
\* format!("/{}/{{id}}", t) with put and delete.
Route(method, path) == [method |-> method, path |-> path]
RoutesOf(t) ==
    << Route("GET", <<t>>), Route("POST", <<t>>),
       Route("PUT", <<t, "{id}">>), Route("DELETE", <<t, "{id}">>) >>

\* for table in &self.exposed_tables { app = app.route(..).route(..).route(..).route(..) }
RECURSIVE AllRoutes(_)
AllRoutes(tables) ==
    IF tables = <<>> THEN <<>> ELSE RoutesOf(Head(tables)) \o AllRoutes(Tail(tables))

\* Router::route panics when the path already has a handler for the method:
\* the index of the first route of s that repeats an earlier one, 0 if none does.
FirstOverlap(s) ==
    IF \E i \in 1..Len(s) : \E j \in 1..(i - 1) : s[j] = s[i]
    THEN CHOOSE i \in 1..Len(s) :
            /\ \E j \in 1..(i - 1) : s[j] = s[i]
            /\ \A k \in 1..(i - 1) : \A j \in 1..(k - 1) : s[j] # s[k]
    ELSE 0

\* The state in which the server of the tests serves: students created, exposed
\* and routed.
Serving ==
    /\ exposed_tables = <<"students">>
    /\ schema = ("students" :> StudentsColumns)
    /\ routes = AllRoutes(<<"students">>)
    /\ phase = "serving"
    /\ created = Created("students", StudentsColumns, "ok")

\* JSON values of every kind, as a payload gives them to a column.
JsonValues ==
    {JStr("Al"), JInt(20), JFloat(35), JNull, JBool(TRUE), JArray, JObject("age" :> JInt(1))}

\* Creates and updates that give the column name a value of each kind.
ValuePostBodies == {JObject(("name" :> v) @@ ("age" :> JInt(20))) : v \in JsonValues}
ValuePutBodies  == {JObject("name" :> v) : v \in JsonValues}

----------------------------------------------------------------------------
(* The server: workers take the connection's lock, run one handler, return. *)

Ids(rows) == {RowId(r) : r \in rows}

\* The tables the model lets the store grow into.
WithinBounds(rows) ==
    /\ Cardinality(rows) <= MaxRows
    /\ \A r \in rows : RowId(r) \in PathIds

Init ==
    /\ store = {}
    /\ lock = 0
    /\ pc = [w \in Workers |-> "idle"]
    /\ last = NoCall
    /\ deleted = {}
    /\ remade = {}
    /\ ident = <<>>
    /\ verdict = "unchecked"
    /\ Serving
    /\ codec_row = <<>> /\ codec_json = <<>>

\* A request is routed to its handler, which starts by asking for the lock.
Arrive(w) ==
    /\ phase = "serving"
    /\ pc[w] = "idle"
    /\ pc' = [pc EXCEPT ![w] = "waiting"]
    /\ UNCHANGED <<store, lock, last, deleted, remade, ident, verdict>>
    /\ UNCHANGED setup_vars
    /\ UNCHANGED codec_vars

\* A lock that is handed out whether or not it is held.
lock_free_always(l) == TRUE

\* Mutex::lock: granted when no one holds it.
lock_free(l) == l = 0

\* let conn = db.lock().unwrap();   (the first line of every handler)
Acquire(w) ==
    /\ pc[w] = "waiting"
    /\ lock_free(lock)
    /\ lock' = w
    /\ pc' = [pc EXCEPT ![w] = "locked"]
    /\ last' = NoCall
    /\ UNCHANGED <<store, deleted, remade, ident, verdict>>
    /\ UNCHANGED setup_vars
    /\ UNCHANGED codec_vars

\* A return that sends the response and keeps the guard.
Return_keeps_guard(w, call) ==
    /\ last' = call
    /\ pc' = [pc EXCEPT ![w] = "idle"]
    /\ lock' = lock
    /\ UNCHANGED <<ident, verdict>>
    /\ UNCHANGED setup_vars
    /\ UNCHANGED codec_vars

\* The handler returns: the response goes out and the guard drops the lock.
Return(w, call) ==
    /\ last' = call
    /\ pc' = [pc EXCEPT ![w] = "idle"]
    /\ lock' = 0
    /\ UNCHANGED <<ident, verdict>>
    /\ UNCHANGED setup_vars
    /\ UNCHANGED codec_vars

handle_get_from(w, queries, failAts) ==
    /\ pc[w] = "locked"
    /\ \E params \in queries, failAt \in failAts :
         \E enum \in Orderings(filter_keys(params)) :
           \E call \in get_results(params, enum, failAt, store) :
             Return(w, call)
    /\ UNCHANGED <<store, deleted, remade>>

handle_get(w) == handle_get_from(w, GetParams, FailAts)

handle_post_from(w, track, bodies) ==
    /\ pc[w] = "locked"
    /\ \E payload \in bodies :
         LET res == post_result(payload, store)
             new == Ids(res.rows) \ Ids(store)
         IN  /\ WithinBounds(res.rows)
             /\ store' = res.rows
             /\ deleted' = IF track THEN deleted \ new ELSE deleted
             /\ remade' = IF track THEN remade \ new ELSE remade
             /\ Return(w, res.call)

handle_post(w, track) == handle_post_from(w, track, PostBodies)

handle_put_from(w, track, bodies) ==
    /\ pc[w] = "locked"
    /\ \E id \in PathIds, payload \in bodies :
         LET res == put_result(id, payload, store)
             new == Ids(res.rows) \ Ids(store)
         IN  /\ store' = res.rows
             /\ deleted' = deleted
             /\ remade' = IF track THEN remade \cup (new \cap deleted) ELSE remade
             /\ Return(w, res.call)

handle_put(w, track) == handle_put_from(w, track, PutBodies)

handle_delete(w, track) ==
    /\ pc[w] = "locked"
    /\ \E id \in PathIds :
         LET res == delete_result(id, store)
         IN  /\ store' = res.rows
             /\ deleted' = IF track /\ res.call.status = 200 THEN deleted \cup {id} ELSE deleted
             /\ remade' = IF track /\ res.call.status = 200 THEN remade \ {id} ELSE remade
             /\ Return(w, res.call)

Next ==
    \E w \in Workers :
        \/ Arrive(w)
        \/ Acquire(w)
        \/ handle_get(w)
        \/ handle_post(w, FALSE)
        \/ handle_put(w, FALSE)
        \/ handle_delete(w, FALSE)

Spec == Init /\ [][Next]_vars

\* Requests that take every handler down each of its return paths: the 400
\* early returns (an invalid name, a payload that is no object), the 404, the
\* 500 (a column the table lacks, an update of nothing) and the success.
FairQueries    == {<<>>, "a;b" :> "Al", "zip" :> "Al"}
FairFailAts    == {0}
FairPostBodies == {JObject(("name" :> JStr("Al")) @@ ("age" :> JInt(20)) @@ Gpa),
                   JObject("zip" :> JStr("Al")), JObject("a;b" :> JStr("Al")), JArray}
FairPutBodies  == {JObject("age" :> JInt(22)), JObject("a;b" :> JStr("Al")),
                   JObject(<<>>), JArray}

\* The body of a handler, whichever it is: every storage call it makes returns.
Handle(w) ==
    \/ handle_get_from(w, FairQueries, FairFailAts)
    \/ handle_post_from(w, FALSE, FairPostBodies)
    \/ handle_put_from(w, FALSE, FairPutBodies)
    \/ handle_delete(w, FALSE)

NextFair ==
    \E w \in Workers :
        \/ Arrive(w)
        \/ Acquire(w)
        \/ Handle(w)

\* The server under a fair scheduler: a handler that holds the lock runs to its
\* return, and a handler that asks for the lock, and finds it free again and
\* again, is granted it.
Fairness ==
    \A w \in Workers : WF_vars(Handle(w)) /\ SF_vars(Acquire(w))

SpecFair == Init /\ [][NextFair]_vars /\ Fairness

\* The same server with the record of deleted ids kept (deleted, remade).  Lists
\* are left out: handle_get changes neither the table nor that record.
NextHistory ==
    \E w \in Workers :
        \/ Arrive(w)
        \/ Acquire(w)
        \/ handle_post(w, TRUE)
        \/ handle_put(w, TRUE)
        \/ handle_delete(w, TRUE)

SpecHistory == Init /\ [][NextHistory]_vars

\* The server given one request at a time: what each handler does on every table
\* the requests can build, without the interleavings of the waiting workers.
NextSerial ==
    \/ Arrive(1)
    \/ Acquire(1)
    \/ handle_get(1)
    \/ handle_post(1, FALSE)
    \/ handle_put(1, FALSE)
    \/ handle_delete(1, FALSE)

SpecSerial == Init /\ [][NextSerial]_vars

\* The server given, one at a time, requests whose payloads hold JSON values of
\* every kind.
NextValues ==
    \/ Arrive(1)
    \/ Acquire(1)
    \/ handle_get(1)
    \/ handle_post_from(1, FALSE, ValuePostBodies)
    \/ handle_put_from(1, FALSE, ValuePutBodies)
    \/ handle_delete(1, FALSE)

SpecValues == Init /\ [][NextValues]_vars

\* A storage call (conn.prepare, conn.execute, a row read) that does not return:
\* the handler stays inside it, holding the connection's guard.
Stall(w) ==
    /\ pc[w] = "locked"
    /\ pc' = [pc EXCEPT ![w] = "stalled"]
    /\ UNCHANGED <<store, lock, last, deleted, remade, ident, verdict>>
    /\ UNCHANGED setup_vars
    /\ UNCHANGED codec_vars

\* The server with storage calls that may never return.
NextStall ==
    \E w \in Workers :
        \/ Arrive(w)
        \/ Acquire(w)
        \/ Stall(w)
        \/ handle_get(w)
        \/ handle_post(w, FALSE)
        \/ handle_put(w, FALSE)
        \/ handle_delete(w, FALSE)

SpecStall == Init /\ [][NextStall]_vars

----------------------------------------------------------------------------
(* The setup on its own: any sequence of create_table calls, then run_server. *)

\* EasyDB::init
InitSetup ==
    /\ store = {}
    /\ lock = 0
    /\ pc = [w \in Workers |-> "idle"]
    /\ last = NoCall
    /\ deleted = {}
    /\ remade = {}
    /\ ident = <<>>
    /\ verdict = "unchecked"
    /\ exposed_tables = <<>>
    /\ schema = <<>>
    /\ routes = <<>>
    /\ phase = "setup"
    /\ created = NoCreate
    /\ codec_row = <<>> /\ codec_json = <<>>

\* A create_table that exposes the name before it runs the statement, so that
\* a statement that fails leaves the name exposed.
create_table_push_first ==
    /\ phase = "setup"
    /\ Len(exposed_tables) < MaxTables
    /\ lock_free(lock)
    /\ \E name \in TableNames, columns \in ColumnLists :
         IF ~is_valid_identifier(Chars(name))
           THEN /\ created' = Created(name, columns, "Invalid table name: " \o name)
                /\ UNCHANGED <<exposed_tables, schema>>
         ELSE IF create_error(name, columns) # ""
           THEN /\ created' = Created(name, columns, create_error(name, columns))
                /\ exposed_tables' = Append(exposed_tables, name)
                /\ UNCHANGED schema
         ELSE /\ schema' = execute_create(name, columns, schema)
              /\ exposed_tables' = Append(exposed_tables, name)
              /\ created' = Created(name, columns, "ok")
    /\ UNCHANGED <<routes, phase>>
    /\ UNCHANGED server_vars
    /\ UNCHANGED codec_vars

\* EasyDB::create_table
create_table ==
    /\ phase = "setup"
    /\ Len(exposed_tables) < MaxTables
    /\ lock_free(lock)
    /\ \E name \in TableNames, columns \in ColumnLists :
         IF ~is_valid_identifier(Chars(name))
           THEN /\ created' = Created(name, columns, "Invalid table name: " \o name)
                /\ UNCHANGED <<exposed_tables, schema>>
         ELSE IF create_error(name, columns) # ""
           THEN /\ created' = Created(name, columns, create_error(name, columns))
                /\ UNCHANGED <<exposed_tables, schema>>
         ELSE /\ schema' = execute_create(name, columns, schema)
              /\ exposed_tables' = Append(exposed_tables, name)
              /\ created' = Created(name, columns, "ok")
    /\ UNCHANGED <<routes, phase>>
    /\ UNCHANGED server_vars
    /\ UNCHANGED codec_vars

\* EasyDB::run_server: the routes of every exposed table are added in turn (a
\* route that overlaps an earlier one makes Router::route panic), then the
\* listener is bound, which may fail.
run_server ==
    /\ phase = "setup"
    /\ LET all == AllRoutes(exposed_tables)
           k   == FirstOverlap(all)
       IN  IF k # 0
             THEN routes' = SubSeq(all, 1, k - 1) /\ phase' = "panicked"
           ELSE routes' = all /\ phase' \in {"serving", "failed"}
    /\ UNCHANGED <<exposed_tables, schema, created>>
    /\ UNCHANGED server_vars
    /\ UNCHANGED codec_vars

NextSetup == create_table \/ run_server

SpecSetup == InitSetup /\ [][NextSetup]_vars

----------------------------------------------------------------------------
(* The row codec on its own: row_to_json is given rows of the two tables    *)
(* the tests create, holding cells of every kind a SQLite file can hold.    *)

\* Bytes the cells are made of: an ASCII letter, a continuation byte, the lead
\* byte of a two-byte sequence, a byte no UTF-8 text contains.
ByteAlphabet == {65, 169, 195, 255}
ByteStrings  == SeqsUpTo(ByteAlphabet, MaxLen)

CellValues ==
    {SqlNull, SqlInt(1), SqlInt(MinId), SqlReal(35), SqlText("Al"), SqlText("")}
    \cup {SqlRawText(b) : b \in ByteStrings \ {<<>>}}
    \cup {SqlBlob(b) : b \in ByteStrings}

CodecRows ==
    {("id" :> SqlInt(i)) @@ ("message" :> v) : i \in {1, 2}, v \in CellValues}
    \cup {("id" :> SqlInt(1)) @@ ("name" :> v) @@ ("age" :> w) @@ ("gpa" :> SqlReal(35)) :
             v \in CellValues, w \in {SqlInt(20), SqlNull, SqlBlob(<<255, 65>>)}}

InitCodec ==
    /\ store = {}
    /\ lock = 0
    /\ pc = [w \in Workers |-> "idle"]
    /\ last = NoCall
    /\ deleted = {}
    /\ remade = {}
    /\ ident = <<>>
    /\ verdict = "unchecked"
    /\ Serving
    /\ codec_row \in CodecRows
    /\ codec_json = <<>>

\* |row| Ok(row_to_json(row))
Encode ==
    /\ codec_json = <<>>
    /\ codec_json' = row_to_json(codec_row)
    /\ UNCHANGED <<codec_row>>
    /\ UNCHANGED server_vars
    /\ UNCHANGED setup_vars

NextCodec == Encode

SpecCodec == InitCodec /\ [][NextCodec]_vars

----------------------------------------------------------------------------
(* The identifier validator on its own: every string over Alphabet of at    *)
(* most MaxLen characters is given to is_valid_identifier.                  *)

InitValidator ==
    /\ store = {}
    /\ lock = 0
    /\ pc = [w \in Workers |-> "idle"]
    /\ last = NoCall
    /\ deleted = {}
    /\ remade = {}
    /\ ident \in Identifiers
    /\ verdict = "unchecked"
    /\ Serving
    /\ codec_row = <<>> /\ codec_json = <<>>

Validate ==
    /\ verdict = "unchecked"
    /\ verdict' = IF is_valid_identifier(ident) THEN "valid" ELSE "invalid"
    /\ UNCHANGED <<store, lock, pc, last, deleted, remade, ident>>
    /\ UNCHANGED setup_vars
    /\ UNCHANGED codec_vars

NextValidator == Validate

SpecValidator == InitValidator /\ [][NextValidator]_vars

----------------------------------------------------------------------------
(* Properties *)

\* The characters [A-Za-z0-9_]
SafeChars == (65..90) \cup (97..122) \cup (48..57) \cup {95}
SafeName(s) == \A i \in 1..Len(Chars(s)) : Chars(s)[i] \in SafeChars

\* A handler returns in this step; last' is then the call it served.
HandlerStep == \E w \in Workers : pc[w] = "locked" /\ pc'[w] = "idle"

\* C1: is_valid_identifier(name) is true exactly when every character of name is
\* in [A-Za-z0-9_]; in particular it is true of the empty string.
C1_ValidatorIffSafe ==
    verdict # "unchecked" =>
        /\ (\E i \in 1..Len(ident) : ident[i] \notin SafeChars) => verdict = "invalid"
        /\ (\A i \in 1..Len(ident) : ident[i] \in SafeChars) => verdict = "valid"

C1_Witness ==
    /\ Len(ident) = 2 /\ ident[1] \in SafeChars /\ ident[2] \notin SafeChars
    /\ verdict = "invalid"

\* The request of call c names a filter column, sort column or payload key with a
\* character outside [A-Za-z0-9_].
HasInvalidIdentifier(c) ==
    \/ /\ c.op = "GET"
       /\ \/ \E k \in filter_keys(c.params) : ~SafeName(k)
          \/ "_sort" \in DOMAIN c.params /\ ~SafeName(c.params["_sort"])
    \/ /\ c.op \in {"POST", "PUT"}
       /\ c.payload.k = "object"
       /\ \E k \in DOMAIN c.payload.o : ~SafeName(k)

ValidPayload(c) ==
    /\ c.payload.k = "object"
    /\ DOMAIN c.payload.o # {}
    /\ \A k \in DOMAIN c.payload.o : SafeName(k)

\* What C3 promises of a returned update or delete, given the table before it.
FoundOrNot(c, before, after) ==
    /\ (\A r \in before : RowId(r) # c.id) =>
          /\ c.status = 404
          /\ c.body = ErrorBody("Record not found")
          /\ after = before
    /\ ((\E r \in before : RowId(r) = c.id) /\ c.raised = "") =>
          /\ c.status = 200
          /\ c.body.kind = "success"

\* C3, as claimed: an update with a non-empty payload of valid identifiers, or a
\* delete, is answered 404 "Record not found" and changes nothing when no row has
\* the id, and 200 with the envelope when a row is affected.
C3_AsClaimed ==
    [][(/\ HandlerStep
        /\ \/ last'.op = "DELETE"
           \/ last'.op = "PUT" /\ ValidPayload(last'))
       => FoundOrNot(last', store, store')]_vars

\* C3, amended: the same, for an update whose payload keys are columns of the table.
C3_NotFoundOrUpdated ==
    [][(/\ HandlerStep
        /\ \/ last'.op = "DELETE"
           \/ /\ last'.op = "PUT" /\ ValidPayload(last')
              /\ DOMAIN last'.payload.o \subseteq Columns)
       => FoundOrNot(last', store, store')]_vars

C3_Witness ==
    /\ last.op = "PUT" /\ ValidPayload(last)
    /\ last.status = 404
    /\ last.body = ErrorBody("Record not found")
    /\ store # {}

\* C4, as claimed: once a DELETE of id i has returned 200, every later DELETE or
\* PUT of i returns 404, until a create inserts a row with id i.
C4_AsClaimed ==
    [][(HandlerStep /\ last'.op \in {"DELETE", "PUT"} /\ last'.id \in deleted)
       => last'.status = 404]_vars

\* C4, amended: once a DELETE of id i has returned 200, and until a create inserts
\* a row with id i or an update changes a row's id to i, every later DELETE of i
\* returns 404 and every later PUT of i returns 404 when its payload is a
\* non-empty object whose keys are columns, and 400 or 500 otherwise.
C4_DeletedStaysNotFound ==
    [][(HandlerStep /\ last'.op \in {"DELETE", "PUT"} /\ last'.id \in deleted \ remade)
       => /\ last'.op = "DELETE" => last'.status = 404
          /\ last'.op = "PUT" =>
                IF ValidPayload(last') /\ DOMAIN last'.payload.o \subseteq Columns
                THEN last'.status = 404
                ELSE last'.status \in {400, 500}]_vars

\* A second DELETE of an id just deleted, answered 404.
C4_Witness ==
    /\ last.op = "DELETE"
    /\ last.status = 404
    /\ last.id \in deleted \ remade
    /\ store # {}

\* A JSON scalar up to its representation: the text of a string, the decimal
\* text of a number.
Repr(j) ==
    CASE j.k = "str"   -> j.s
      [] j.k = "int"   -> IntText(j.n)
      [] j.k = "float" -> FloatText(j.n)
      [] j.k = "null"  -> "null"

\* The create of call c gave exactly the columns name, age and gpa.
StudentPayload(c) == c.payload.k = "object" /\ DOMAIN c.payload.o = {"name", "age", "gpa"}

\* Every answer a list filtered on name = n can give on table rows.
ListByName(n, rows) == get_results("name" :> n, <<"name">>, 0, rows)

\* The round trip of C5 for a create c answered 201 on table `before`: the list
\* returns one record, equal to the payload up to representation.
RoundTrip(c, before, after) ==
    \A got \in ListByName(Repr(c.payload.o["name"]), after) :
        /\ got.status = 200
        /\ Len(got.body.rows) = 1
        /\ \A col \in {"name", "age", "gpa"} :
              Repr(got.body.rows[1][col]) = Repr(c.payload.o[col])
        /\ got.body.rows[1]["id"].k = "int"

\* The create of this step is one C5 speaks of: answered 201, columns name, age
\* and gpa, and no record of that name in the table before.
RoundTripCase ==
    /\ HandlerStep /\ last'.op = "POST" /\ last'.status = 201
    /\ StudentPayload(last')
    /\ \A r \in store : r["name"] # SqlText(Repr(last'.payload.o["name"]))

IsDescIgnoringCase(s) ==
    /\ Len(Chars(s)) = 4
    /\ \A i \in 1..4 : Chars(s)[i] \in {Chars("desc")[i], Chars("DESC")[i]}

\* Numeric order of two JSON numbers of a record.
JsonLeq(a, b) == a.n <= b.n

\* C6: a list sorted on a column returns its records in non-increasing order of
\* the column when _order is "desc" (any case), in non-decreasing order for any
\* other _order or none; the direction in the statement is ASC or DESC.
C6_SortDirection ==
    (last.op = "GET" /\ "_sort" \in DOMAIN last.params) =>
        /\ \A i \in 1..Len(last.stmts) :
              /\ last.stmts[i].order # <<>>
              /\ last.stmts[i].order[2] \in {"ASC", "DESC"}
        /\ (last.status = 200 /\ last.params["_sort"] = "age") =>
              LET rows == last.body.rows
                  desc == "_order" \in DOMAIN last.params
                          /\ IsDescIgnoringCase(last.params["_order"])
              IN  \A i, j \in 1..Len(rows) : i < j =>
                     IF desc THEN JsonLeq(rows[j]["age"], rows[i]["age"])
                     ELSE JsonLeq(rows[i]["age"], rows[j]["age"])

\* Two students of different ages, listed oldest first for _order=Desc.
C6_Witness ==
    /\ last.op = "GET" /\ last.status = 200
    /\ "_sort" \in DOMAIN last.params /\ "_order" \in DOMAIN last.params
    /\ last.params["_order"] = "Desc"
    /\ Len(last.body.rows) = 2
    /\ last.body.rows[1]["age"].n > last.body.rows[2]["age"].n

\* C7: a create whose body is an empty object, or JSON that is no object, is
\* answered 400 with an error object; no INSERT runs and the table is unchanged.
C7_EmptyOrMalformedCreate ==
    [][(/\ HandlerStep /\ last'.op = "POST"
        /\ \/ last'.payload.k # "object"
           \/ DOMAIN last'.payload.o = {})
       => /\ last'.status = 400
          /\ last'.body.kind = "error"
          /\ last'.stmts = <<>>
          /\ store' = store]_vars

C7_Witness ==
    /\ last.op = "POST" /\ last.payload = JObject(<<>>)
    /\ last.status = 400
    /\ store # {}

\* C8: a create with a non-empty payload of valid keys is answered 201 with the
\* envelope, one row added and no other row changed, or 500 with the engine's
\* message and the table unchanged.
C8_CreateOutcomes ==
    [][(HandlerStep /\ last'.op = "POST" /\ ValidPayload(last'))
       => \/ /\ last'.status = 201
             /\ last'.body = SuccessBody("Record created")
             /\ store \subseteq store'
             /\ Cardinality(store' \ store) = 1
          \/ /\ last'.status = 500
             /\ last'.body.kind = "error"
             /\ last'.raised # "" /\ last'.body.msg = last'.raised
             /\ store' = store]_vars

\* A create refused by the engine: the id it names is taken.
C8_Witness ==
    /\ last.op = "POST" /\ ValidPayload(last)
    /\ last.status = 500
    /\ last.raised = "UNIQUE constraint failed: students.id"
    /\ store # {}

\* C9: at most one handler holds the connection at any time, and from the moment
\* a handler holds it until it returns no other request changes the table: the
\* table changes only by the whole effect of the one handler that holds the lock.
C9_OneHandlerAtATime ==
    [][/\ Cardinality({w \in Workers : pc'[w] = "locked"}) <= 1
       /\ \A w \in Workers : pc'[w] = "locked" => lock' = w
       /\ \A w \in Workers : (pc[w] = "locked" /\ pc'[w] = "locked") => store' = store
       /\ store' # store => \E w \in Workers : lock = w /\ pc[w] = "locked" /\ pc'[w] = "idle"
      ]_vars

\* One handler holds the connection while another waits for it.
C9_Witness ==
    \E w, v \in Workers : pc[w] = "locked" /\ pc[v] = "waiting" /\ lock = w /\ store # {}

\* C10, as claimed: an engine error raised during a call is answered 500 with the
\* engine's message, never with a success.
C10_AsClaimed ==
    last.raised # "" => (last.status = 500 /\ last.body = ErrorBody(last.raised))

\* The WHERE clause of statement sql holds one predicate `k = ?` for each name
\* of the set keys, and none when keys is empty.
WhereIsExactly(sql, keys) ==
    /\ Range(sql.cols) = keys
    /\ Len(sql.cols) = Cardinality(keys)
    /\ (keys = {}) <=> (sql.cols = <<>>)

\* What C11 promises of a returned list request whose filter parameters are keys.
FiltersBuilt(c, keys) ==
    /\ (\E k \in keys : ~SafeName(k)) => (c.status = 400 /\ c.stmts = <<>>)
    /\ c.stmts # <<>> =>
          /\ Len(c.stmts) = 1
          /\ c.stmts[1].verb = "SELECT"
          /\ WhereIsExactly(c.stmts[1], keys)

\* C11, as claimed: in a list request every query parameter other than `_sort`
\* and `_order` is validated as an identifier and contributes one predicate
\* `name = ?` to the WHERE clause; with no such parameter there is no WHERE.
C11_AsClaimed ==
    last.op = "GET" => FiltersBuilt(last, DOMAIN last.params \ {"_sort", "_order"})

\* C11, amended: in a list request every query parameter whose name does not
\* start with `_` is validated as an identifier and contributes one predicate
\* `name = ?` to the WHERE clause; every parameter whose name starts with `_`
\* is left out of the filters, and with no filter parameter there is no WHERE.
C11_FiltersFromUnprefixedNames ==
    last.op = "GET" =>
        FiltersBuilt(last, {k \in DOMAIN last.params : k = "" \/ Chars(k)[1] # 95})

\* A list with a filter, a sort and a direction: the filter alone is in the WHERE.
C11_Witness ==
    /\ last.op = "GET"
    /\ DOMAIN last.params = {"name", "_sort", "_order"}
    /\ last.status = 200
    /\ last.stmts[1].cols = <<"name">>
    /\ store # {}

\* The names a request gives to the statement: the filter columns, the sort
\* column and the direction of a list, the payload keys of a create or update.
FilterNames(params) == {k \in DOMAIN params : k = "" \/ Chars(k)[1] # 95}
SortColumn(params)  == IF "_sort" \in DOMAIN params THEN <<params["_sort"]>> ELSE <<>>
Direction(params)   == "_order" \in DOMAIN params /\ IsDescIgnoringCase(params["_order"])

\* The calls the handler of call c can return, on table rows, for the requests
\* that name what c's request names and differ from it in values or path id.
SameNames(c, rows) ==
    CASE c.op = "GET" ->
           UNION {UNION {get_results(p, e, 0, rows) : e \in Orderings(filter_keys(p))} :
                    p \in {q \in GetParams : /\ FilterNames(q) = FilterNames(c.params)
                                             /\ SortColumn(q) = SortColumn(c.params)
                                             /\ Direction(q) = Direction(c.params)}}
      [] c.op = "POST" ->
           {post_result(b, rows).call :
              b \in {q \in PostBodies : q.k = "object" /\ DOMAIN q.o = DOMAIN c.payload.o}}
      [] c.op = "PUT" ->
           {put_result(i, b, rows).call : i \in PathIds,
              b \in {q \in PutBodies : q.k = "object" /\ DOMAIN q.o = DOMAIN c.payload.o}}
      [] c.op = "DELETE" ->
           {delete_result(i, rows).call : i \in PathIds}
      [] OTHER -> {}

\* The request of call c names columns (its payload, if it has one, is an object).
NamesColumns(c) == c.op \in {"GET", "DELETE"} \/ (c.op \in {"POST", "PUT"} /\ c.payload.k = "object")

\* The values of the request of call c: filter values, payload strings.
ValuesOf(c) ==
    {c.params[k] : k \in FilterNames(c.params)}
    \cup (IF c.op \in {"POST", "PUT"} /\ c.payload.k = "object"
          THEN {c.payload.o[k].s : k \in {j \in DOMAIN c.payload.o : c.payload.o[j].k = "str"}}
          ELSE {})

\* Statements a and b are the same text but for the order of the predicates
\* in the WHERE clause of a SELECT.
SameTextUpToWhereOrder(a, b) ==
    /\ a.verb = b.verb /\ a.table = b.table /\ a.order = b.order
    /\ Len(a.cols) = Len(b.cols)
    /\ Range(a.cols) = Range(b.cols)
    /\ a.verb # "SELECT" => a.cols = b.cols

\* C12, as claimed: two requests of one operation that name the same columns,
\* sort column and direction and differ in filter values, payload values or
\* path id build identical SQL strings.
C12_AsClaimed ==
    NamesColumns(last) =>
        \A c \in SameNames(last, store) :
            (c.params # last.params \/ c.payload # last.payload \/ c.id # last.id)
                => c.stmts = last.stmts

\* C12, amended: two such requests build SQL strings that are identical but for
\* the order of the predicates in the WHERE clause of a list, which follows the
\* order in which the parameter map yields its entries; no request value is a
\* part of the text.
C12_ValuesStayOutOfSql ==
    NamesColumns(last) =>
        /\ \A c \in SameNames(last, store) :
              /\ Len(c.stmts) = Len(last.stmts)
              /\ \A i \in 1..Len(c.stmts) : SameTextUpToWhereOrder(c.stmts[i], last.stmts[i])
        /\ \A i \in 1..Len(last.stmts) : IdentifiersOf(last.stmts[i]) \cap ValuesOf(last) = {}

\* A list filtered by one name, and the same list filtered by another: two
\* sets of bound parameters under one statement.
C12_Witness ==
    /\ last.op = "GET" /\ last.params = ("name" :> "Bo")
    /\ last.status = 200
    /\ \E c \in SameNames(last, store) : c.binds # last.binds /\ c.stmts = last.stmts
    /\ store # {}

\* Record j satisfies every filter equality of the query parameters: each
\* filtered column holds the filter's value, up to representation.
Satisfies(j, params) ==
    \A k \in FilterNames(params) : j[k].k # "null" /\ Repr(j[k]) = params[k]

\* The records of table rows that satisfy the filters.
Selected(params, rows) == {j \in {row_to_json(r) : r \in rows} : Satisfies(j, params)}

\* The array holds exactly the records of set S, each once.
HoldsEachOnce(array, S) ==
    /\ Range(array) = S
    /\ Len(array) = Cardinality(S)

\* C13, as claimed: a list answered 200 returns an array holding exactly the
\* records of the table that satisfy every filter equality, each once, and the
\* empty array when none does.
C13_AsClaimed ==
    (last.op = "GET" /\ last.status = 200) =>
        /\ last.body.kind = "array"
        /\ HoldsEachOnce(last.body.rows, Selected(last.params, store))

\* The same of the lists during which the engine raised no error.
C13_WithoutEngineError ==
    (last.op = "GET" /\ last.status = 200 /\ last.raised = "") =>
        /\ last.body.kind = "array"
        /\ HoldsEachOnce(last.body.rows, Selected(last.params, store))

\* The orders in which the parameter map of call c can yield its filters.
Enumerations(c) == Orderings(FilterNames(c.params))

\* C14: a list returns the same set of records whatever the order in which its
\* filters are written into the WHERE clause (and an engine error during the
\* list changes the answer the same way under every order), and the value bound
\* to each placeholder is the value the request gives for that placeholder's
\* column.
C14_FilterOrderIrrelevant ==
    (last.op = "GET" /\ last.status = 200) =>
        /\ Len(last.binds) = Len(last.stmts[1].cols)
        /\ \A i \in 1..Len(last.binds) :
              last.binds[i] = SqlText(last.params[last.stmts[1].cols[i]])
        /\ last.raised = "" =>
              \A e \in Enumerations(last) :
                 \A c \in get_results(last.params, e, 0, store) :
                    c.status = 200 /\ Range(c.body.rows) = Range(last.body.rows)
        /\ \A e \in Enumerations(last) :
              \E f \in FailAts : \E c \in get_results(last.params, e, f, store) :
                 c.status = last.status /\ c.body = last.body

\* A list on two filters, written in the order that is not the sorted one,
\* that returns a record.
C14_Witness ==
    /\ last.op = "GET" /\ last.status = 200 /\ last.raised = ""
    /\ last.stmts[1].cols = <<"name", "age">>
    /\ Len(last.body.rows) = 1
    /\ Cardinality(store) = 2

\* Some request is answered in this step.
Responds == \E v \in Workers : pc[v] # "idle" /\ pc'[v] = "idle"

\* C15: once a storage call made by a handler does not return, the handler
\* keeps the connection's lock for ever and no request is answered any more,
\* whatever it asks for: every later request waits for the lock, which it asks
\* for before it validates anything.
C15_StallBlocksEveryRequest ==
    [][(\E w \in Workers : pc[w] = "stalled") =>
          /\ ~Responds
          /\ last' = last
          /\ lock' = lock
          /\ \A w \in Workers : pc[w] = "stalled" => pc'[w] = "stalled"
          /\ \A v \in Workers : pc'[v] \in {"idle", "waiting", "stalled"}]_vars

\* One handler inside a storage call that does not return, every other request
\* waiting for the lock.
C15_Witness ==
    /\ \E w \in Workers :
          /\ pc[w] = "stalled" /\ lock = w
          /\ \A v \in Workers \ {w} : pc[v] = "waiting"
    /\ store # {}

\* The sequence s holds no element twice.
NoRepeats(s) == \A i, j \in 1..Len(s) : i # j => s[i] # s[j]

\* C16, as claimed: after any sequence of create_table calls the exposed tables
\* hold each name at most once, and run_server adds exactly one set of four
\* routes (GET, POST, PUT, DELETE) for each of them.
C16_AsClaimed ==
    /\ NoRepeats(exposed_tables)
    /\ phase \notin {"setup", "failed"} =>
          /\ phase = "serving"
          /\ Range(routes) = UNION {Range(RoutesOf(t)) : t \in Range(exposed_tables)}
          /\ NoRepeats(routes)
          /\ Len(routes) = 4 * Cardinality(Range(exposed_tables))

\* The chars of a JSON string.
Content(j) == IF j.cs # <<>> THEN j.cs ELSE Chars(j.s)

\* What C17 promises of the JSON value j made from cell v.
CellCodec(v, j) ==
    /\ v.t = "null" => j = JNull
    /\ v.t = "int"  => (j.k = "int" /\ j.n = v.n)
    /\ v.t = "real" => (j.k = "float" /\ j.n = v.n)
    /\ v.t = "text" =>
          /\ j.k = "str"
          /\ from_utf8(as_bytes(v)).ok  => Utf8(Content(j)) = as_bytes(v)
          /\ ~from_utf8(as_bytes(v)).ok => j = JStr("")
    /\ v.t = "blob" =>
          /\ j.k = "str"
          /\ Content(j)[1] = 91 /\ Content(j)[Len(Content(j))] = 93
          /\ Cardinality({i \in 1..Len(Content(j)) : Content(j)[i] = 44})
                = (IF v.b = <<>> THEN 0 ELSE Len(v.b) - 1)

C18_PlaceholdersMatchParameters ==
    (last.op \in {"POST", "PUT"} /\ last.stmts # <<>>) =>
        LET sql == last.stmts[1]
            n   == Len(sql.cols)
        IN  /\ Len(last.stmts) = 1
            /\ sql.verb = (IF last.op = "POST" THEN "INSERT" ELSE "UPDATE")
            /\ Len(last.binds) = Placeholders(sql)
            /\ Range(sql.cols) = DOMAIN last.payload.o /\ NoRepeats(sql.cols)
            /\ \A i \in 1..n :
                  last.binds[i].t = "text"
                  /\ last.binds[i].s = Repr(last.payload.o[sql.cols[i]])
            /\ last.op = "POST" => Len(last.binds) = n
            /\ last.op = "PUT" =>
                  /\ Len(last.binds) = n + 1
                  /\ last.binds[n + 1].s = IntText(last.id)

\* An update of one column of the row it names: two parameters, the id last.
C18_Witness ==
    /\ last.op = "PUT" /\ last.status = 200
    /\ last.stmts[1].cols = <<"age">>
    /\ last.binds = <<SqlText("22"), SqlText(IntText(last.id))>>
    /\ last.id = 2

\* C19: an update whose payload is the empty object is not refused as a client
\* error: an UPDATE with no SET assignment is built and handed to the engine,
\* which fails on it, so the answer is 500 with the engine's message and the
\* table is left as it was.
C19_EmptyUpdateFailsAtEngine ==
    [][(HandlerStep /\ last'.op = "PUT" /\ last'.payload = JObject(<<>>)) =>
          /\ last'.status = 500
          /\ last'.stmts = <<Statement("UPDATE", TableName, <<>>, <<>>)>>
          /\ last'.raised # ""
          /\ last'.body = ErrorBody(last'.raised)
          /\ store' = store]_vars

\* An empty update of a row that exists, answered 500.
C19_Witness ==
    /\ last.op = "PUT" /\ last.payload = JObject(<<>>)
    /\ last.status = 500
    /\ \E r \in store : RowId(r) = last.id

\* The JSON text of the values of JsonValues.
Serialized(v) ==
    CASE v = JStr("Al")   -> "\"Al\""
      [] v = JInt(20)     -> "20"
      [] v = JFloat(35)   -> "3.5"
      [] v = JNull        -> "null"
      [] v = JBool(TRUE)  -> "true"
      [] v = JArray       -> "[]"
      [] v = JObject("age" :> JInt(1)) -> "{\"age\":1}"

\* The text C20 says is bound for payload value v.
BoundText(v) == IF v.k = "str" THEN v.s ELSE Serialized(v)

\* The filter and payload values of call c are bound as text: a filter value
\* as it is, a JSON string as its contents, any other JSON value as its JSON
\* text; the id of an update as its decimal text.
ValuesBoundAsText(c) ==
    /\ c.op = "GET" =>
          \A i \in 1..Len(c.binds) : c.binds[i] = SqlText(c.params[c.stmts[1].cols[i]])
    /\ c.op \in {"POST", "PUT"} =>
          \A i \in 1..Len(c.stmts[1].cols) :
              c.binds[i] = SqlText(BoundText(c.payload.o[c.stmts[1].cols[i]]))
    /\ c.op = "PUT" => c.binds[Len(c.binds)] = SqlText(IntText(c.id))

\* C20, as claimed: every value a handler binds is bound as text, the id of a
\* delete included.
C20_AsClaimed ==
    last.stmts # <<>> =>
        /\ ValuesBoundAsText(last)
        /\ last.op = "DELETE" => last.binds = <<SqlText(IntText(last.id))>>

\* C20, amended: every filter value, payload value and update id is bound as
\* text (a payload null as the text "null", not as SQL NULL); the id of a delete
\* is bound as an integer.
C20_TextBindings ==
    last.stmts # <<>> =>
        /\ ValuesBoundAsText(last)
        /\ last.op = "DELETE" => last.binds = <<SqlInt(last.id)>>

\* A create whose payload gives null for name: the row holds the text "null".
C20_Witness ==
    /\ last.op = "POST" /\ last.status = 201
    /\ last.payload.o["name"] = JNull
    /\ last.binds = <<SqlText("20"), SqlText("null")>>
    /\ \E r \in store : r["name"] = SqlText("null")

\* The rows of table `before` whose id is not i.
Others(i, before) == {r \in before : RowId(r) # i}

\* Table `after` is `before` with the columns K of the rows whose id is i
\* given new values: no other row and no other column differs.
OnlyColumnsOfRow(i, K, before, after) ==
    /\ Others(i, before) \subseteq after
    /\ Cardinality(after) = Cardinality(before)
    /\ \A r \in before \ Others(i, before) :
          \E q \in after \ Others(i, before) :
              \A c \in Columns \ K : q[c] = r[c]

C22_RegistryInvariant ==
    [][/\ \A i \in 1..Len(exposed_tables') :
             /\ SafeName(exposed_tables'[i])
             /\ exposed_tables'[i] \in DOMAIN schema'
       /\ (created' # created /\ (\/ ~SafeName(created'.name)
                                  \/ created'.name = ""
                                  \/ created'.columns = "")) =>
             /\ created'.result \notin {"ok", "none"}
             /\ exposed_tables' = exposed_tables
             /\ schema' = schema
       /\ (created' # created /\ created'.result # "ok") =>
             (exposed_tables' = exposed_tables /\ schema' = schema)
       /\ exposed_tables' # exposed_tables =>
             /\ created'.result = "ok"
             /\ exposed_tables' = Append(exposed_tables, created'.name)
       /\ \A i \in 1..Len(routes') :
             /\ SafeName(routes'[i].path[1])
             /\ routes'[i].path[1] \in DOMAIN schema'
             /\ \E j \in 1..Len(exposed_tables') : exposed_tables'[j] = routes'[i].path[1]
      ]_vars

\* A call refused by the engine after one that succeeded: the exposed tables
\* are those of the first call.
C22_Witness ==
    /\ created = Created("students", "", "syntax error")
    /\ exposed_tables = <<"logs">>
    /\ DOMAIN schema = {"logs"}
    /\ phase = "setup"

\* C23: a handler takes the lock once, when it starts, and gives it back when it
\* returns, whatever the status of its response (200, 201, 400, 404, 500); the
\* lock is held exactly while a handler runs its body; and, every storage call
\* returning and the scheduler being fair, every request that reached its
\* handler is answered, once, by that handler's return.
Statuses == {200, 201, 400, 404, 500}

Holder == {w \in Workers : pc[w] = "locked"}

LockDiscipline ==
    /\ Holder = IF lock = 0 THEN {} ELSE {lock}
    /\ (Holder = {}) => lock = 0

LockSteps ==
    /\ (lock' # lock /\ lock = 0) =>
          /\ lock' \in Workers
          /\ pc[lock'] = "waiting" /\ pc'[lock'] = "locked"
          /\ last' = NoCall
    /\ (lock' # lock /\ lock # 0) =>
          /\ lock' = 0
          /\ pc[lock] = "locked" /\ pc'[lock] = "idle"
    /\ \A w \in Workers :
          /\ (pc[w] = "locked" /\ pc'[w] # "locked") =>
                /\ pc'[w] = "idle"
                /\ lock = w /\ lock' = 0
                /\ last'.status \in Statuses
          /\ (pc[w] = "waiting" /\ pc'[w] # "waiting") => (pc'[w] = "locked" /\ lock' = w)
          /\ (pc[w] = "idle" /\ pc'[w] # "idle") => (pc'[w] = "waiting" /\ lock' = lock)
          /\ (pc[w] = pc'[w]) => (last' = last \/ \E v \in Workers : pc[v] # pc'[v])

C23_EveryRequestAnswered ==
    /\ []LockDiscipline
    /\ [][LockSteps]_vars
    /\ \A w \in Workers : (pc[w] = "waiting") ~> (pc[w] = "idle")

\* A request answered 400 and the lock free again while another request waits
\* for it.
C23_Witness ==
    /\ last.status = 400
    /\ lock = 0
    /\ \E w, v \in Workers : pc[w] = "idle" /\ pc[v] = "waiting"

====
